---- MODULE Spec2Model ----
(***************************************************************************)
(* A model of the limit order book of src/main.cpp (class Orderbook).      *)
(*                                                                         *)
(* The book is the three containers of the class: bids_ and asks_ (price   *)
(* -> FIFO list of orders) and orders_ (order id -> entry).  Each public   *)
(* operation (AddOrder, CancelOrder, MatchOrder) is one action that runs   *)
(* the whole handler, the matching pass and the FillAndKill purge          *)
(* included.                                                               *)
(*                                                                         *)
(* Reads through dangling references.  MatchOrders keeps the references    *)
(* `bid`, `ask` (elements of the level lists) and `bids`, `asks` (the      *)
(* level lists themselves) across pop_front / orders_.erase / bids_.erase, *)
(* and MatchOrder keeps `existingOrder` (an element of orders_) across     *)
(* CancelOrder.  Each such read is undefined behaviour and is modelled as  *)
(* a choice:                                                               *)
(*   - the access faults and the program ends (outcome "fault");           *)
(*   - a pointer or a list size read from a node that was just released    *)
(*     comes back as it was stored (no allocation happens in between);     *)
(*   - an Order that may already be destroyed (the order a trade leg is    *)
(*     built from, the order whose type MatchOrder reuses) reads as it was *)
(*     stored or as an indeterminate object.                               *)
(*                                                                         *)
(* Intermediate values that the code keeps in locals are passed as         *)
(* operator parameters (MatchStep, StepFill, StepPop, ...), one operator  *)
(* per stage of a function body.                                           *)
(***************************************************************************)
EXTENDS Integers, Sequences, FiniteSets, TLC

\* Bounds of the model.
MaxPrice == 2
MaxQty == 2
MaxCalls == 3
\* Quantity is an unsigned integer type (std::uint32_t): the model keeps its
\* wrap-around, at a width of QuantityBits bits.
QuantityBits == 2

\* A caller that makes MaxCalls calls names at most MaxCalls different orders.
Ids == 1..MaxCalls
Prices == 1..MaxPrice
Quantities == 0..MaxQty

\* Unsigned arithmetic on Quantity is modulo this.
QuantityModulus == 2 ^ QuantityBits

OrderType == {"GoodTillCancel", "FillAndKill"}
Side == {"Buy", "Sell"}

VARIABLES
  bids_,    \* price -> sequence of orders (the level list), best = highest key
  asks_,    \* price -> sequence of orders (the level list), best = lowest key
  orders_,  \* order id -> entry of the id index
  trades,   \* the Trades returned by the last call
  passLog,  \* the matching pass of the last call, if it ran one: its steps, each
            \* with the book before it, and the book when the loop ended (before
            \* the purge)
  before,   \* the book when the last call was made
  call,     \* the last call: operation, arguments and the branch it took
  outcome,  \* "returned", or how the program ended: "fault", "exception"
  ncalls,   \* number of calls made
  infos     \* the OrderbookLevelInfos returned by the last call of GetOrderInfos

vars == <<bids_, asks_, orders_, trades, passLog, before, call, outcome, ncalls, infos>>

----------------------------------------------------------------------------
\* Data types

Order(orderType, orderId, side, price, quantity) ==
  [orderType_ |-> orderType, orderId_ |-> orderId, side_ |-> side, price_ |-> price,
   initialQuantity_ |-> quantity, remainingQuantity_ |-> quantity]

\* A variant of IsFilled below that takes every order for filled.
AlwaysFilled(order) == TRUE

IsFilled(order) == order.remainingQuantity_ = 0

FillThrows(order, quantity) == quantity > order.remainingQuantity_

\* A variant of Fill below that takes all that remains, whatever the quantity.
FillAll(order, quantity) == [order EXCEPT !.remainingQuantity_ = 0]

Fill(order, quantity) ==
  IF FillThrows(order, quantity) THEN order
  ELSE [order EXCEPT !.remainingQuantity_ = @ - quantity]

OrderModify(orderId, side, price, quantity) ==
  [orderId_ |-> orderId, side_ |-> side, price_ |-> price, quantity_ |-> quantity]

ToOrderPointer(modify, type) ==
  Order(type, modify.orderId_, modify.side_, modify.price_, modify.quantity_)

TradeInfo(orderId, price, quantity) ==
  [orderId_ |-> orderId, price_ |-> price, quantity_ |-> quantity]

Trade(bidTrade, askTrade) == [bidTrade_ |-> bidTrade, askTrade_ |-> askTrade]

\* The entry of the id index: order_, the order it points to, kept as the fields
\* of the order that never change.  location_ is the node that holds the order with
\* this id in the level list of its side and price.
OrderEntry(order) ==
  [orderType_ |-> order.orderType_, orderId_ |-> order.orderId_,
   side_ |-> order.side_, price_ |-> order.price_]

----------------------------------------------------------------------------
\* Containers

EmptyMap == [p \in {} |-> <<>>]

Erase(m, k) == [p \in DOMAIN m \ {k} |-> m[p]]

Put(m, k, v) == [p \in DOMAIN m \cup {k} |-> IF p = k THEN v ELSE m[p]]

\* std::map::operator[]: the level at a price, created empty when absent.
LevelAt(m, price) == IF price \in DOMAIN m THEN m[price] ELSE <<>>

\* A variant of PushBack below that puts the order at the front of the list.
PushFront(orders, order) == <<order>> \o orders

PushBack(orders, order) == Append(orders, order)

\* A variant of EraseNode below that removes the first node of the list.
EraseFront(orders, orderId) == Tail(orders)

\* A variant of EraseNode below that removes the last node of the list.
EraseBack(orders, orderId) == SubSeq(orders, 1, Len(orders) - 1)

\* std::list::erase(location_): removes the node that holds the order.
EraseNode(orders, orderId) == SelectSeq(orders, LAMBDA o : o.orderId_ # orderId)

\* std::unordered_map::insert: keeps the entry already stored under the key.
InsertEntry(m, k, v) == IF k \in DOMAIN m THEN m ELSE Put(m, k, v)

SetMax(S) == CHOOSE x \in S : \A y \in S : y <= x
SetMin(S) == CHOOSE x \in S : \A y \in S : x <= y

\* A variant of BestBid below that orders the bid side like the ask side.
LowestBid(b) == SetMin(DOMAIN b.bids_)

\* bids_.begin() under std::greater, asks_.begin() under std::less.
BestBid(b) == SetMax(DOMAIN b.bids_)
BestAsk(b) == SetMin(DOMAIN b.asks_)

Book == [bids_ |-> bids_, asks_ |-> asks_, orders_ |-> orders_]

\* The orders in the level lists of a book, and the Order an index entry points to.
LevelOrders(m) == UNION {{m[p][i] : i \in DOMAIN m[p]} : p \in DOMAIN m}

AllOrders(b) == LevelOrders(b.bids_) \cup LevelOrders(b.asks_)

NoOrder == [orderId_ |-> 0]

FindOrder(b, orderId) ==
  IF \E o \in AllOrders(b) : o.orderId_ = orderId
  THEN CHOOSE o \in AllOrders(b) : o.orderId_ = orderId
  ELSE NoOrder

----------------------------------------------------------------------------
\* Orderbook::CanMatch

\* A variant of CanMatch below that tests a sell order as if it were a buy order.
CanMatchAsBuy(b, side, price) ==
  IF side = "Buy"
  THEN IF DOMAIN b.asks_ = {} THEN FALSE ELSE price >= BestAsk(b)
  ELSE IF DOMAIN b.bids_ = {} THEN FALSE ELSE price >= BestBid(b)

CanMatch(b, side, price) ==
  IF side = "Buy"
  THEN IF DOMAIN b.asks_ = {} THEN FALSE ELSE price >= BestAsk(b)
  ELSE IF DOMAIN b.bids_ = {} THEN FALSE ELSE price <= BestBid(b)

----------------------------------------------------------------------------
\* Orderbook::CancelOrder

\* bids_.at(price) / asks_.at(price) throws std::out_of_range when the level the
\* entry names is absent.
CancelThrows(b, orderid) ==
  /\ orderid \in DOMAIN b.orders_
  /\ b.orders_[orderid].price_ \notin
       DOMAIN (IF b.orders_[orderid].side_ = "Buy" THEN b.bids_ ELSE b.asks_)

\* The level list after a removal: the level is erased when the list is empty.
SetLevel(m, price, orders) ==
  IF orders = <<>> THEN Erase(m, price) ELSE Put(m, price, orders)

\* A variant of CancelOrder below that leaves the entry in the id index.
CancelKeepEntry(b, orderid) ==
  IF orderid \notin DOMAIN b.orders_ THEN b
  ELSE IF CancelThrows(b, orderid) THEN b
  ELSE LET price == b.orders_[orderid].price_
       IN IF b.orders_[orderid].side_ = "Buy"
          THEN [bids_ |-> SetLevel(b.bids_, price, EraseNode(b.bids_[price], orderid)),
                asks_ |-> b.asks_,
                orders_ |-> b.orders_]
          ELSE [bids_ |-> b.bids_,
                asks_ |-> SetLevel(b.asks_, price, EraseNode(b.asks_[price], orderid)),
                orders_ |-> b.orders_]

\* A variant of CancelOrder below that leaves the level of the order in place.
CancelKeepLevel(b, orderid) ==
  IF orderid \notin DOMAIN b.orders_ THEN b
  ELSE IF CancelThrows(b, orderid) THEN b
  ELSE LET price == b.orders_[orderid].price_
       IN IF b.orders_[orderid].side_ = "Buy"
          THEN [bids_ |-> Put(b.bids_, price, EraseNode(b.bids_[price], orderid)),
                asks_ |-> b.asks_,
                orders_ |-> Erase(b.orders_, orderid)]
          ELSE [bids_ |-> b.bids_,
                asks_ |-> Put(b.asks_, price, EraseNode(b.asks_[price], orderid)),
                orders_ |-> Erase(b.orders_, orderid)]

CancelOrder(b, orderid) ==
  IF orderid \notin DOMAIN b.orders_ THEN b
  ELSE IF CancelThrows(b, orderid) THEN b
  ELSE LET price == b.orders_[orderid].price_
       IN IF b.orders_[orderid].side_ = "Buy"
          THEN [bids_ |-> SetLevel(b.bids_, price, EraseNode(b.bids_[price], orderid)),
                asks_ |-> b.asks_,
                orders_ |-> Erase(b.orders_, orderid)]
          ELSE [bids_ |-> b.bids_,
                asks_ |-> SetLevel(b.asks_, price, EraseNode(b.asks_[price], orderid)),
                orders_ |-> Erase(b.orders_, orderid)]

----------------------------------------------------------------------------
\* Orderbook::MatchOrders

\* A variant of the test below that also stops on equal prices.
NoCrossOrEqual(bidPrice, askPrice) == bidPrice <= askPrice

\* The test that ends the pass: best bid below best ask.
NoCross(bidPrice, askPrice) == bidPrice < askPrice

\* A variant of MatchQuantity below that takes the larger of the two.
LargerQuantity(bid, ask) ==
  IF bid.remainingQuantity_ <= ask.remainingQuantity_
  THEN ask.remainingQuantity_ ELSE bid.remainingQuantity_

\* std::min of the two remaining quantities.
MatchQuantity(bid, ask) ==
  IF bid.remainingQuantity_ <= ask.remainingQuantity_
  THEN bid.remainingQuantity_ ELSE ask.remainingQuantity_

\* bids.size() / asks.size() in the inner loop test.  After the level was erased the
\* list read is the destroyed, empty list of the released map node: size 0, or a fault.
LevelSize(m, price) == IF price \in DOMAIN m THEN Len(m[price]) ELSE 0

\* if (order->IsFilled()) { list.pop_front(); ... }: the level list after the fill.
PopIfFilled(orders, order1) ==
  IF IsFilled(order1) THEN Tail(orders) ELSE <<order1>> \o Tail(orders)

\* A variant of EraseIfFilled below that leaves the entry of a filled order.
KeepIfFilled(index, order1) == index

\* if (order->IsFilled()) { ...; orders_.erase(order->GetOrderId()); }
EraseIfFilled(index, order1) ==
  IF IsFilled(order1) THEN Erase(index, order1.orderId_) ELSE index

\* The end of the inner loop body: filled heads are popped and erased from the id
\* index, emptied levels are erased.  bid1 and ask1 are the two heads after Fill.
StepPop(b, bidPrice, askPrice, bid, ask, quantity, bid1, ask1) ==
  [pre |-> b,
   post |-> [bids_ |-> SetLevel(b.bids_, bidPrice, PopIfFilled(b.bids_[bidPrice], bid1)),
             asks_ |-> SetLevel(b.asks_, askPrice, PopIfFilled(b.asks_[askPrice], ask1)),
             orders_ |-> EraseIfFilled(EraseIfFilled(b.orders_, bid1), ask1)],
   bid |-> bid, ask |-> ask, quantity |-> quantity,
   bidFilled |-> IsFilled(bid1), askFilled |-> IsFilled(ask1),
   threw |-> FillThrows(bid, quantity) \/ FillThrows(ask, quantity)]

\* A variant of StepFill below that fills the bid only.
StepFillBid(b, bidPrice, askPrice, bid, ask, quantity) ==
  StepPop(b, bidPrice, askPrice, bid, ask, quantity, Fill(bid, quantity), ask)

\* bid->Fill(quantity); ask->Fill(quantity);
StepFill(b, bidPrice, askPrice, bid, ask, quantity) ==
  StepPop(b, bidPrice, askPrice, bid, ask, quantity, Fill(bid, quantity), Fill(ask, quantity))

\* One pass of the inner loop body on the heads of the two levels: the book before
\* (pre) and after (post) it, the two heads, the quantity, which heads were popped.
MatchStep(b, bidPrice, askPrice) ==
  StepFill(b, bidPrice, askPrice, Head(b.bids_[bidPrice]), Head(b.asks_[askPrice]),
           MatchQuantity(Head(b.bids_[bidPrice]), Head(b.asks_[askPrice])))

RECURSIVE InnerLoop(_, _, _, _)

\* What the pass log keeps of a step.
Logged(s) ==
  [pre |-> s.pre, bid |-> s.bid, ask |-> s.ask, quantity |-> s.quantity,
   bidFilled |-> s.bidFilled, askFilled |-> s.askFilled]

InnerNext(b, bidPrice, askPrice, log, s) ==
  IF s.threw THEN [book |-> b, log |-> log, threw |-> TRUE]
  ELSE InnerLoop(s.post, bidPrice, askPrice, Append(log, Logged(s)))

\* while (bids.size() && asks.size()) on the two levels bound by the outer loop.
InnerLoop(b, bidPrice, askPrice, log) ==
  IF LevelSize(b.bids_, bidPrice) # 0 /\ LevelSize(b.asks_, askPrice) # 0
  THEN InnerNext(b, bidPrice, askPrice, log, MatchStep(b, bidPrice, askPrice))
  ELSE [book |-> b, log |-> log, threw |-> FALSE]

RECURSIVE OuterLoop(_, _)

OuterNext(r) == IF r.threw THEN r ELSE OuterLoop(r.book, r.log)

\* while (true): stop on an empty side or when the best prices do not cross.
OuterLoop(b, log) ==
  IF DOMAIN b.bids_ = {} \/ DOMAIN b.asks_ = {}
  THEN [book |-> b, log |-> log, threw |-> FALSE]
  ELSE IF NoCross(BestBid(b), BestAsk(b))
  THEN [book |-> b, log |-> log, threw |-> FALSE]
  ELSE OuterNext(InnerLoop(b, BestBid(b), BestAsk(b), log))

\* A variant of the purge below that cancels nothing.
KeepHead(b, orders) == b

\* if (order->GetOrderType() == OrderType::FillAndKill) CancelOrder(order->GetOrderId())
\* on the head of a best level.
KillHead(b, orders) ==
  IF Head(orders).orderType_ = "FillAndKill"
  THEN CancelOrder(b, Head(orders).orderId_) ELSE b

PurgeBids(b) == IF DOMAIN b.bids_ # {} THEN KillHead(b, b.bids_[BestBid(b)]) ELSE b

PurgeAsks(b) == IF DOMAIN b.asks_ # {} THEN KillHead(b, b.asks_[BestAsk(b)]) ELSE b

\* The purge after the loop: the head of the best bid level, then of the best ask level.
PurgeFillAndKill(b) == PurgeAsks(PurgeBids(b))

AfterLoop(r) ==
  [book |-> IF r.threw THEN r.book ELSE PurgeFillAndKill(r.book),
   matched |-> r.book, log |-> r.log, threw |-> r.threw]

MatchOrders(b) == AfterLoop(OuterLoop(b, <<>>))

----------------------------------------------------------------------------
\* Orderbook::AddOrder

\* A variant of IsDuplicate below that finds no id in the index.
NeverDuplicate(b, order) == FALSE

\* orders_.contains(order->GetOrderId())
IsDuplicate(b, order) == order.orderId_ \in DOMAIN b.orders_

\* The order is appended to the level of its side and price (created when absent)
\* and entered in the id index.
Insert(b, order) ==
  IF order.side_ = "Buy"
  THEN [bids_ |-> Put(b.bids_, order.price_, PushBack(LevelAt(b.bids_, order.price_), order)),
        asks_ |-> b.asks_,
        orders_ |-> InsertEntry(b.orders_, order.orderId_, OrderEntry(order))]
  ELSE [bids_ |-> b.bids_,
        asks_ |-> Put(b.asks_, order.price_, PushBack(LevelAt(b.asks_, order.price_), order)),
        orders_ |-> InsertEntry(b.orders_, order.orderId_, OrderEntry(order))]

\* The result of a call: the book, the match steps, whether it threw, and the
\* branch of AddOrder it took.
Result(r, threw, path) ==
  [book |-> r.book, matched |-> r.matched, log |-> r.log,
   threw |-> r.threw \/ threw, path |-> path]

Unchanged(b, path) ==
  [book |-> b, matched |-> b, log |-> <<>>, threw |-> FALSE, path |-> path]

AddOrder(b, order) ==
  IF IsDuplicate(b, order) THEN Unchanged(b, "duplicate")
  ELSE IF order.orderType_ = "FillAndKill" /\ ~CanMatch(b, order.side_, order.price_)
  THEN Unchanged(b, "rejected")
  ELSE Result(MatchOrders(Insert(b, order)), FALSE, "admitted")

----------------------------------------------------------------------------
\* Orderbook::MatchOrder (modify)

\* CancelOrder(id), then AddOrder of the new order; `type` is what
\* existingOrder->GetOrderType() returned after the cancellation.
Resubmit(r, threw) == Result(r, threw, r.path)

MatchOrder(b, modify, type) ==
  IF modify.orderId_ \notin DOMAIN b.orders_ THEN Unchanged(b, "unknown")
  ELSE Resubmit(AddOrder(CancelOrder(b, modify.orderId_), ToOrderPointer(modify, type)),
                CancelThrows(b, modify.orderId_))

----------------------------------------------------------------------------
\* Orderbook::Size, Orderbook::GetOrderInfos

Size(b) == Cardinality(DOMAIN b.orders_)

RECURSIVE Accumulate(_, _)
\* std::accumulate over the level list, in Quantity: the running sum wraps.
Accumulate(orders, runningSum) ==
  IF orders = <<>> THEN runningSum
  ELSE Accumulate(Tail(orders),
                  (runningSum + Head(orders).remainingQuantity_) % QuantityModulus)

CreateLevelInfos(price, orders) ==
  [price_ |-> price, quantity_ |-> Accumulate(orders, 0)]

RECURSIVE BidInfos(_)
RECURSIVE AskInfos(_)

\* for (const auto& [price, orders] : bids_): the levels from the first key on.
BidInfosFrom(m, price) ==
  <<CreateLevelInfos(price, m[price])>> \o BidInfos(Erase(m, price))

BidInfos(m) == IF DOMAIN m = {} THEN <<>> ELSE BidInfosFrom(m, SetMax(DOMAIN m))

\* for (const auto& [price, orders] : asks_)
AskInfosFrom(m, price) ==
  <<CreateLevelInfos(price, m[price])>> \o AskInfos(Erase(m, price))

AskInfos(m) == IF DOMAIN m = {} THEN <<>> ELSE AskInfosFrom(m, SetMin(DOMAIN m))

OrderbookLevelInfos(bids, asks) == [bids_ |-> bids, asks_ |-> asks]

GetOrderInfos(b) == OrderbookLevelInfos(BidInfos(b.bids_), AskInfos(b.asks_))

----------------------------------------------------------------------------
\* Reads through dangling references

\* What the id or the price of a destroyed Order may read as, besides the value
\* stored: a value that is no id and no price of the book.
Indeterminate == {0}

\* The (id, price) pairs a read of `order` may give.
ReadOrder(order, released) ==
  {<<order.orderId_, order.price_>>} \cup
    (IF released THEN Indeterminate \X Indeterminate ELSE {})

\* existingOrder->GetOrderType() after CancelOrder released the entry and the order.
ReadOrderType(type) == {type} \cup OrderType

\* TradeInfo{bid->GetOrderId(), bid->GetPrice(), quantity}: `bid` dangles when the
\* order was popped.
LegReads(order, popped, quantity) ==
  {TradeInfo(r[1], r[2], quantity) : r \in ReadOrder(order, popped)}

StepTrades(s) ==
  {Trade(bt, at) : bt \in LegReads(s.bid, s.bidFilled, s.quantity),
                   at \in LegReads(s.ask, s.askFilled, s.quantity)}

\* The Trades a pass can return: one Trade per step, in order.
RECURSIVE TradeReads(_)
TradeReads(log) ==
  IF log = <<>> THEN {<<>>}
  ELSE {<<h>> \o t : h \in StepTrades(Head(log)), t \in TradeReads(Tail(log))}

----------------------------------------------------------------------------
\* The state machine

EmptyBook == [bids_ |-> EmptyMap, asks_ |-> EmptyMap, orders_ |-> EmptyMap]

NoPass == [steps |-> <<>>, end |-> EmptyBook]

NoInfos == OrderbookLevelInfos(<<>>, <<>>)

NoCall == [op |-> "none", arg |-> NoOrder, type |-> "none", path |-> "none"]

Init ==
  /\ bids_ = EmptyMap
  /\ asks_ = EmptyMap
  /\ orders_ = EmptyMap
  /\ trades = <<>>
  /\ passLog = NoPass
  /\ before = EmptyBook
  /\ infos = NoInfos
  /\ call = NoCall
  /\ outcome = "returned"
  /\ ncalls = 0

\* The ids a caller passes: those in the book and one that is not (ids are only
\* compared for equality, so the ids outside the book are interchangeable).
CallIds ==
  DOMAIN orders_ \cup
    (IF Ids \ DOMAIN orders_ = {} THEN {} ELSE {SetMin(Ids \ DOMAIN orders_)})

\* How a call of AddOrder or MatchOrder ends.  It returns the trades (or throws);
\* or, when it read through a dangling reference (on every match step, and in
\* MatchOrder on a known id: `dangling`), the read may fault.
Finish(c, r, dangling) ==
  \/ /\ \E t \in TradeReads(r.log) : trades' = (IF r.threw THEN <<>> ELSE t)
     /\ bids_' = r.book.bids_
     /\ asks_' = r.book.asks_
     /\ orders_' = r.book.orders_
     /\ passLog' = (IF r.path = "admitted"
                     THEN [steps |-> r.log, end |-> r.matched] ELSE NoPass)
     /\ before' = Book
     /\ infos' = NoInfos
     /\ call' = [c EXCEPT !.path = r.path]
     /\ outcome' = (IF r.threw THEN "exception" ELSE "returned")
     /\ ncalls' = ncalls + 1
  \/ /\ dangling \/ r.log # <<>>
     /\ outcome' = "fault"
     /\ call' = [c EXCEPT !.path = r.path]
     /\ trades' = <<>>
     /\ passLog' = NoPass
     /\ before' = Book
     /\ infos' = NoInfos
     /\ ncalls' = ncalls + 1
     /\ UNCHANGED <<bids_, asks_, orders_>>

AddOrderCall ==
  /\ outcome = "returned"
  /\ call = NoCall
  /\ ncalls < MaxCalls
  /\ \E orderType \in OrderType, orderId \in CallIds, side \in Side,
        price \in Prices, quantity \in Quantities :
       Finish([op |-> "AddOrder", arg |-> Order(orderType, orderId, side, price, quantity),
               type |-> orderType, path |-> "none"],
              AddOrder(Book, Order(orderType, orderId, side, price, quantity)),
              FALSE)

CancelOrderCall ==
  /\ outcome = "returned"
  /\ call = NoCall
  /\ ncalls < MaxCalls
  /\ \E orderid \in CallIds :
       /\ bids_' = CancelOrder(Book, orderid).bids_
       /\ asks_' = CancelOrder(Book, orderid).asks_
       /\ orders_' = CancelOrder(Book, orderid).orders_
       /\ trades' = <<>>
       /\ passLog' = NoPass
       /\ before' = Book
       /\ infos' = NoInfos
       /\ call' = [op |-> "CancelOrder", arg |-> [orderId_ |-> orderid],
                   type |-> "none",
                   path |-> IF orderid \in DOMAIN orders_ THEN "cancelled" ELSE "unknown"]
       /\ outcome' = (IF CancelThrows(Book, orderid) THEN "exception" ELSE "returned")
       /\ ncalls' = ncalls + 1

\* The order types MatchOrder may read for the order it modifies.
TypeReads(orderId) ==
  IF orderId \in DOMAIN orders_ THEN ReadOrderType(orders_[orderId].orderType_)
  ELSE {"none"}

MatchOrderCall ==
  /\ outcome = "returned"
  /\ call = NoCall
  /\ ncalls < MaxCalls
  /\ \E orderId \in CallIds, side \in Side, price \in Prices, quantity \in Quantities :
       \E type \in TypeReads(orderId) :
         Finish([op |-> "MatchOrder", arg |-> OrderModify(orderId, side, price, quantity),
                 type |-> type, path |-> "none"],
                MatchOrder(Book, OrderModify(orderId, side, price, quantity), type),
                orderId \in DOMAIN orders_)

\* The caller is done with what the call returned (main drops the Trades of every
\* call) and may make its next call.
Discard ==
  /\ outcome = "returned"
  /\ call # NoCall
  /\ call' = NoCall
  /\ trades' = <<>>
  /\ passLog' = NoPass
  /\ before' = EmptyBook
  /\ infos' = NoInfos
  /\ UNCHANGED <<bids_, asks_, orders_, outcome, ncalls>>

\* GetOrderInfos is const: it reads the two sides and returns the level infos.
GetOrderInfosCall ==
  /\ outcome = "returned"
  /\ call = NoCall
  /\ infos' = GetOrderInfos(Book)
  /\ call' = [op |-> "GetOrderInfos", arg |-> NoOrder, type |-> "none", path |-> "none"]
  /\ before' = Book
  /\ UNCHANGED <<bids_, asks_, orders_, trades, passLog, outcome, ncalls>>

Next ==
  AddOrderCall \/ CancelOrderCall \/ MatchOrderCall \/ GetOrderInfosCall \/ Discard

Spec == Init /\ [][Next]_vars

----------------------------------------------------------------------------
\* Properties

\* An id is in a book: it is the key of an index entry or the id of an order in a
\* level.
InLevels(m, id) == \E p \in DOMAIN m : \E i \in DOMAIN m[p] : m[p][i].orderId_ = id

InBook(b, id) == id \in DOMAIN b.orders_ \/ InLevels(b.bids_, id) \/ InLevels(b.asks_, id)

\* The book after step i of the last matching pass.
PostOf(i) ==
  IF i < Len(passLog.steps) THEN passLog.steps[i + 1].pre ELSE passLog.end

\* The head of the highest bid level and of the lowest ask level of a book.
TopBid(b) == b.bids_[CHOOSE p \in DOMAIN b.bids_ : \A q \in DOMAIN b.bids_ : q <= p][1]
TopAsk(b) == b.asks_[CHOOSE p \in DOMAIN b.asks_ : \A q \in DOMAIN b.asks_ : p <= q][1]

\* C1. No crossed book on return: whenever a call has returned and both sides
\* hold a level, the highest bid price is strictly below the lowest ask price.
NoCrossedBook ==
  (outcome = "returned" /\ DOMAIN bids_ # {} /\ DOMAIN asks_ # {}) =>
    \A bp \in DOMAIN bids_, ap \in DOMAIN asks_ : bp < ap

\* A call matched orders and returned with orders left on both sides.
NoCrossedBookWitness ==
  /\ outcome = "returned"
  /\ trades # <<>>
  /\ DOMAIN bids_ # {}
  /\ DOMAIN asks_ # {}

\* C2. Price-time priority: every trade of a matching pass pairs the head of the
\* best bid level with the head of the best ask level of the book at that step; an
\* order that is not the head of the best level of its side is left as it is by
\* the step (so a later order at a price gets no fill before the earlier ones, and
\* no order gets a fill while a better-priced order rests on its side).
PriceTimePriority ==
  /\ outcome = "returned" => Len(trades) = Len(passLog.steps)
  /\ \A i \in DOMAIN passLog.steps :
       /\ DOMAIN passLog.steps[i].pre.bids_ # {}
       /\ DOMAIN passLog.steps[i].pre.asks_ # {}
       /\ passLog.steps[i].bid = TopBid(passLog.steps[i].pre)
       /\ passLog.steps[i].ask = TopAsk(passLog.steps[i].pre)
       /\ \A o \in AllOrders(passLog.steps[i].pre) :
            o \notin {passLog.steps[i].bid, passLog.steps[i].ask} =>
              o \in AllOrders(PostOf(i))

\* A step filled the head of a bid level in part while a later order waited
\* behind it at the same price.
PriceTimePriorityWitness ==
  /\ outcome = "returned"
  /\ \E i \in DOMAIN passLog.steps :
       /\ Len(passLog.steps[i].pre.bids_[passLog.steps[i].bid.price_]) >= 2
       /\ passLog.steps[i].quantity > 0
       /\ passLog.steps[i].bid.remainingQuantity_ > passLog.steps[i].quantity

\* C3. Immediate orders never rest: after any call returns, no FillAndKill order
\* is in a price level or in the id index.
FillAndKillNeverRests ==
  outcome = "returned" =>
    /\ \A p \in DOMAIN bids_ : \A i \in DOMAIN bids_[p] :
         bids_[p][i].orderType_ # "FillAndKill"
    /\ \A p \in DOMAIN asks_ : \A i \in DOMAIN asks_[p] :
         asks_[p][i].orderType_ # "FillAndKill"
    /\ \A id \in DOMAIN orders_ : orders_[id].orderType_ # "FillAndKill"

\* A FillAndKill order was matched in part and its remainder was purged before
\* AddOrder returned.
FillAndKillNeverRestsWitness ==
  /\ outcome = "returned"
  /\ call.op = "AddOrder"
  /\ call.type = "FillAndKill"
  /\ trades # <<>>
  /\ InBook(passLog.end, call.arg.orderId_)
  /\ ~InBook(Book, call.arg.orderId_)

\* An order of the book before a step, after the step: its remaining quantity is
\* lower by `quantity`, an order left with nothing is gone, nothing else changed.
ReducedBy(o, quantity, post) ==
  IF InBook(post, o.orderId_)
  THEN /\ [o EXCEPT !.remainingQuantity_ = @ - quantity] \in AllOrders(post)
       /\ o.remainingQuantity_ > quantity
  ELSE o.remainingQuantity_ = quantity

\* C4. Per-trade conservation: the two legs of every trade carry the same
\* quantity, the smaller of the remaining quantities of the two matched orders
\* just before the step; the step lowers the remaining quantity of each of the two
\* by exactly that, and changes no other order.
TradeConservation ==
  \A i \in DOMAIN passLog.steps :
    /\ outcome = "returned" =>
         /\ i \in DOMAIN trades
         /\ trades[i].bidTrade_.quantity_ = trades[i].askTrade_.quantity_
         /\ trades[i].bidTrade_.quantity_ <= passLog.steps[i].bid.remainingQuantity_
         /\ trades[i].bidTrade_.quantity_ <= passLog.steps[i].ask.remainingQuantity_
         /\ trades[i].bidTrade_.quantity_ \in {passLog.steps[i].bid.remainingQuantity_,
                                              passLog.steps[i].ask.remainingQuantity_}
         /\ ReducedBy(passLog.steps[i].bid, trades[i].bidTrade_.quantity_, PostOf(i))
         /\ ReducedBy(passLog.steps[i].ask, trades[i].askTrade_.quantity_, PostOf(i))
    /\ {passLog.steps[i].bid, passLog.steps[i].ask} \subseteq AllOrders(passLog.steps[i].pre)
    /\ AllOrders(passLog.steps[i].pre) \ {passLog.steps[i].bid, passLog.steps[i].ask}
         = {o \in AllOrders(PostOf(i)) :
              o.orderId_ \notin {passLog.steps[i].bid.orderId_, passLog.steps[i].ask.orderId_}}

\* A returned trade filled one order in full and the other, larger one, in part.
TradeConservationWitness ==
  /\ outcome = "returned"
  /\ \E i \in DOMAIN passLog.steps :
       /\ passLog.steps[i].quantity > 0
       /\ passLog.steps[i].bid.remainingQuantity_ # passLog.steps[i].ask.remainingQuantity_
       /\ trades[i].bidTrade_.quantity_ = passLog.steps[i].quantity

RECURSIVE SumRemaining(_)
\* The sum of the remaining quantities of a set of orders.
SumRemaining(S) ==
  IF S = {} THEN 0
  ELSE LET o == CHOOSE x \in S : TRUE
       IN o.remainingQuantity_ + SumRemaining(S \ {o})

TotalRemaining(b) == SumRemaining(AllOrders(b))

RECURSIVE SumQuantity(_)
\* The sum of the quantities of a sequence of trades.
SumQuantity(ts) ==
  IF ts = <<>> THEN 0 ELSE Head(ts).bidTrade_.quantity_ + SumQuantity(Tail(ts))

\* The quantity of the order the last call submitted, and the remaining quantity
\* of the order that a MatchOrder call cancelled first.
Submitted ==
  IF call.op = "MatchOrder" THEN call.arg.quantity_ ELSE call.arg.initialQuantity_

Cancelled ==
  IF call.op = "MatchOrder"
  THEN FindOrder(before, call.arg.orderId_).remainingQuantity_ ELSE 0

\* C5 as stated. Book-level conservation: for every call that produces trades, the
\* total remaining quantity of the book is lower after the call than before it, by
\* exactly the sum of the quantities of the returned trades.
TotalFallsBySumOfTrades ==
  (outcome = "returned" /\ trades # <<>>) =>
    /\ TotalRemaining(Book) = TotalRemaining(before) - SumQuantity(trades)
    /\ TotalRemaining(Book) < TotalRemaining(before)

\* C5, corrected. For every call that produces trades, with T the sum of the
\* quantities of the returned trades, q the quantity of the order the call
\* submitted and c the remaining quantity of the order a MatchOrder call cancelled
\* first (0 for AddOrder): the total remaining quantity after the call is the total
\* before it - c + q - 2T when the submitted order is GoodTillCancel (each trade is
\* taken from both of its orders), and the total before it - c - T when it is
\* FillAndKill (its unfilled q - T is purged).
BookConservation ==
  (outcome = "returned" /\ trades # <<>>) =>
    TotalRemaining(Book) =
      IF call.type = "GoodTillCancel"
      THEN TotalRemaining(before) - Cancelled + Submitted - 2 * SumQuantity(trades)
      ELSE TotalRemaining(before) - Cancelled - SumQuantity(trades)

\* A GoodTillCancel order was filled in part and its remainder rests: the total is
\* not lower by the sum of the trades.
BookConservationWitness ==
  /\ outcome = "returned"
  /\ trades # <<>>
  /\ call.type = "GoodTillCancel"
  /\ SumQuantity(trades) > 0
  /\ InBook(Book, call.arg.orderId_)
  /\ TotalRemaining(Book) # TotalRemaining(before) - SumQuantity(trades)

\* C6. Idempotent cancel: CancelOrder of an id that is not in the book returns
\* without an error and leaves the levels, the orders in them and the id index as
\* they were; after CancelOrder(id) returns, id is not in the book, so a second
\* CancelOrder(id) is such a call and leaves the state of the first.
IdempotentCancel ==
  call.op = "CancelOrder" =>
    /\ ~InBook(before, call.arg.orderId_) => (outcome = "returned" /\ Book = before)
    /\ outcome = "returned" => ~InBook(Book, call.arg.orderId_)
    /\ trades = <<>>

\* CancelOrder of an id that is not in a non-empty book returned.
IdempotentCancelWitness ==
  /\ call.op = "CancelOrder"
  /\ outcome = "returned"
  /\ ~InBook(before, call.arg.orderId_)
  /\ AllOrders(before) # {}

\* C7. Duplicate id: AddOrder of an order whose id is in the book returns no
\* trades, runs no matching pass and leaves the book as it was, whatever the kind,
\* side, price and quantity of the order.
DuplicateRejected ==
  (call.op = "AddOrder" /\ InBook(before, call.arg.orderId_)) =>
    /\ outcome = "returned"
    /\ trades = <<>>
    /\ passLog.steps = <<>>
    /\ call.path = "duplicate"
    /\ Book = before

\* AddOrder was called with the id of a resting order and another kind, side,
\* price and quantity, at a price that crosses the resting order.
DuplicateRejectedWitness ==
  /\ call.op = "AddOrder"
  /\ outcome = "returned"
  /\ InBook(before, call.arg.orderId_)
  /\ call.arg.orderType_ # FindOrder(before, call.arg.orderId_).orderType_
  /\ call.arg.side_ # FindOrder(before, call.arg.orderId_).side_
  /\ call.arg.price_ # FindOrder(before, call.arg.orderId_).price_
  /\ call.arg.initialQuantity_ # FindOrder(before, call.arg.orderId_).remainingQuantity_
  /\ call.arg.side_ = "Buy"
  /\ call.arg.price_ > FindOrder(before, call.arg.orderId_).price_

\* The order of the last AddOrder call meets no order of the other side: a buy
\* when there is no ask or its price is below the best ask, a sell when there is no
\* bid or its price is above the best bid.
MeetsNoOrder ==
  IF call.arg.side_ = "Buy"
  THEN \/ DOMAIN before.asks_ = {}
       \/ \A p \in DOMAIN before.asks_ : call.arg.price_ < p
  ELSE \/ DOMAIN before.bids_ = {}
       \/ \A p \in DOMAIN before.bids_ : call.arg.price_ > p

\* C8. Immediate order without a cross: AddOrder of a FillAndKill order that meets
\* no order of the other side returns no trades and leaves the book as it was; the
\* order is inserted in no level and not in the id index at any point of the call.
ImmediateRejected ==
  (call.op = "AddOrder" /\ call.arg.orderType_ = "FillAndKill" /\ MeetsNoOrder) =>
    /\ outcome = "returned"
    /\ trades = <<>>
    /\ passLog.steps = <<>>
    /\ call.path # "admitted"
    /\ Book = before

\* A FillAndKill sell with a new id was rejected at a price above the best bid.
ImmediateRejectedWitness ==
  /\ call.op = "AddOrder"
  /\ outcome = "returned"
  /\ call.arg.orderType_ = "FillAndKill"
  /\ ~InBook(before, call.arg.orderId_)
  /\ call.arg.side_ = "Sell"
  /\ DOMAIN before.bids_ # {}
  /\ \A p \in DOMAIN before.bids_ : call.arg.price_ > p

\* CancelOrder(id), then AddOrder of a new order with the id and the kind of the
\* order that was resting and the side, price and quantity of the last call.
CancelThenAdd ==
  AddOrder(CancelOrder(before, call.arg.orderId_),
           Order(FindOrder(before, call.arg.orderId_).orderType_, call.arg.orderId_,
                 call.arg.side_, call.arg.price_, call.arg.quantity_))

\* C9 as stated. Modify is cancel-then-resubmit: MatchOrder with an unknown id
\* returns no trades and leaves the book as it was; with a known id, when it
\* returns, the book and the trades are those of CancelOrder(id) followed by
\* AddOrder of a new order with the same id, the kind of the order that was resting
\* and the caller's side, price and quantity.
ModifyIsCancelThenAdd ==
  (call.op = "MatchOrder" /\ outcome = "returned") =>
    IF ~InBook(before, call.arg.orderId_)
    THEN trades = <<>> /\ Book = before
    ELSE Book = CancelThenAdd.book /\ trades \in TradeReads(CancelThenAdd.log)

\* The order of the last MatchOrder call, as it is in the book.
Modified == FindOrder(Book, call.arg.orderId_)

\* The level of the book at the side and price of the last MatchOrder call.
ModifiedLevel ==
  LevelAt(IF call.arg.side_ = "Buy" THEN bids_ ELSE asks_, call.arg.price_)

\* C10. Modify loses queue position: after MatchOrder on a known id returns, an
\* order with that id that is in the book is the last element of the level at the
\* new side and price, its initial quantity is the new quantity and its remaining
\* quantity is the new quantity less what this call traded.
ModifyLosesPosition ==
  (/\ call.op = "MatchOrder"
   /\ outcome = "returned"
   /\ InBook(before, call.arg.orderId_)
   /\ InBook(Book, call.arg.orderId_)) =>
    /\ ModifiedLevel # <<>>
    /\ ModifiedLevel[Len(ModifiedLevel)] = Modified
    /\ Cardinality({o \in AllOrders(Book) : o.orderId_ = call.arg.orderId_}) = 1
    /\ call.arg.orderId_ \in DOMAIN orders_
    /\ Modified.side_ = call.arg.side_
    /\ Modified.price_ = call.arg.price_
    /\ Modified.initialQuantity_ = call.arg.quantity_
    /\ Modified.remainingQuantity_ = call.arg.quantity_ - SumQuantity(trades)

\* MatchOrder changed only the quantity of the head of a level of two orders, and
\* the order is now behind the other one.
ModifyLosesPositionWitness ==
  /\ call.op = "MatchOrder"
  /\ outcome = "returned"
  /\ InBook(before, call.arg.orderId_)
  /\ FindOrder(before, call.arg.orderId_).side_ = call.arg.side_
  /\ FindOrder(before, call.arg.orderId_).price_ = call.arg.price_
  /\ FindOrder(before, call.arg.orderId_).remainingQuantity_ # call.arg.quantity_
  /\ Len(LevelAt(before.bids_, call.arg.price_)) = 2
  /\ before.bids_[call.arg.price_][1].orderId_ = call.arg.orderId_
  /\ Len(ModifiedLevel) = 2
  /\ ModifiedLevel[2].orderId_ = call.arg.orderId_

\* The last call names the id: CancelOrder(id) or MatchOrder on id.
Targets(id) == call.op \in {"CancelOrder", "MatchOrder"} /\ call.arg.orderId_ = id

\* A step of the last matching pass filled the order with this id to 0 and
\* popped it.
FilledOut(id) ==
  \E k \in DOMAIN passLog.steps :
    \/ passLog.steps[k].bid.orderId_ = id /\ passLog.steps[k].bidFilled
    \/ passLog.steps[k].ask.orderId_ = id /\ passLog.steps[k].askFilled

\* The order o of level `old` is in level `new`, the same but for a remaining
\* quantity that fills may have lowered.
StaysIn(o, new) ==
  \E j \in DOMAIN new :
    /\ new[j].remainingQuantity_ <= o.remainingQuantity_
    /\ [new[j] EXCEPT !.remainingQuantity_ = o.remainingQuantity_] = o

\* The orders of level `old` that are in level `new`, but for the one the last
\* call names, are there in the same order.
SameOrderIn(old, new) ==
  \A i1, i2 \in DOMAIN old : \A j1, j2 \in DOMAIN new :
    (/\ i1 < i2
     /\ ~Targets(old[i1].orderId_) /\ old[i1].orderId_ = new[j1].orderId_
     /\ ~Targets(old[i2].orderId_) /\ old[i2].orderId_ = new[j2].orderId_)
      => j1 < j2

\* Every GoodTillCancel order of side `old` that the last call does not name is
\* in the same level of side `new`, or was filled out by the last call.
SidePersists(old, new) ==
  \A p \in DOMAIN old :
    /\ SameOrderIn(old[p], LevelAt(new, p))
    /\ \A i \in DOMAIN old[p] :
         (old[p][i].orderType_ = "GoodTillCancel" /\ ~Targets(old[p][i].orderId_)) =>
           IF InBook(Book, old[p][i].orderId_)
           THEN StaysIn(old[p][i], LevelAt(new, p))
           ELSE FilledOut(old[p][i].orderId_)

\* C11. Resting order persistence: across every call that returns, a
\* GoodTillCancel order of the book stays in the level of its side and price, in
\* the same order relative to the other orders of the level, unless the call
\* filled it to 0, or was CancelOrder or MatchOrder with its id.
RestingOrderPersists ==
  outcome = "returned" =>
    /\ SidePersists(before.bids_, bids_)
    /\ SidePersists(before.asks_, asks_)

\* A call traded with the head of a level of two bids and filled it out; the
\* second bid stays, untouched.
RestingOrderPersistsWitness ==
  /\ outcome = "returned"
  /\ trades # <<>>
  /\ \E p \in DOMAIN before.bids_ :
       /\ Len(before.bids_[p]) = 2
       /\ ~InBook(Book, before.bids_[p][1].orderId_)
       /\ LevelAt(bids_, p) = <<before.bids_[p][2]>>

\* C12 as stated. Trade legs report each order's own price: in every returned
\* trade the bid leg carries the id and the price of the buy order matched in that
\* step and the ask leg the id and the price of the sell order, so the bid-leg
\* price is at least the ask-leg price and the two legs name two different orders,
\* one of each side.
TradeLegsOwnPrice ==
  outcome = "returned" =>
    \A i \in DOMAIN trades :
      /\ i \in DOMAIN passLog.steps
      /\ trades[i].bidTrade_.orderId_ = passLog.steps[i].bid.orderId_
      /\ trades[i].bidTrade_.price_ = passLog.steps[i].bid.price_
      /\ passLog.steps[i].bid.side_ = "Buy"
      /\ trades[i].askTrade_.orderId_ = passLog.steps[i].ask.orderId_
      /\ trades[i].askTrade_.price_ = passLog.steps[i].ask.price_
      /\ passLog.steps[i].ask.side_ = "Sell"
      /\ trades[i].bidTrade_.price_ >= trades[i].askTrade_.price_
      /\ trades[i].bidTrade_.orderId_ # trades[i].askTrade_.orderId_

\* C13 as stated. Zero quantity is rejected: AddOrder or MatchOrder with quantity 0
\* returns no trades, inserts no order and leaves the book as it was.
ZeroQuantityRejected ==
  (call.op \in {"AddOrder", "MatchOrder"} /\ Submitted = 0) =>
    /\ outcome = "returned"
    /\ trades = <<>>
    /\ call.path # "admitted"
    /\ Book = before

RECURSIVE SumLevel(_)
\* The sum of the remaining quantities of the orders of a level.
SumLevel(orders) ==
  IF orders = <<>> THEN 0
  ELSE Head(orders).remainingQuantity_ + SumLevel(Tail(orders))

\* The level infos list the levels of a side, one entry each, each with the sum of
\* the remaining quantities of the level.
ListsLevels(levelInfos, m) ==
  /\ Len(levelInfos) = Cardinality(DOMAIN m)
  /\ \A i \in DOMAIN levelInfos :
       /\ levelInfos[i].price_ \in DOMAIN m
       /\ levelInfos[i].quantity_ = SumLevel(LevelAt(m, levelInfos[i].price_))

\* C14 as stated. Level snapshot: GetOrderInfos returns one entry per bid level
\* in strictly descending price order and one entry per ask level in strictly
\* ascending price order, the quantity of an entry being the sum of the remaining
\* quantities of the orders of the level; the call leaves the book as it was.
LevelSnapshot ==
  call.op = "GetOrderInfos" =>
    /\ outcome = "returned"
    /\ Book = before
    /\ ListsLevels(infos.bids_, bids_)
    /\ ListsLevels(infos.asks_, asks_)
    /\ \A i, j \in DOMAIN infos.bids_ : i < j => infos.bids_[i].price_ > infos.bids_[j].price_
    /\ \A i, j \in DOMAIN infos.asks_ : i < j => infos.asks_[i].price_ < infos.asks_[j].price_

\* The places of the level lists of a side: (price, position) pairs.
Places(m) == UNION {{<<p, i>> : i \in DOMAIN m[p]} : p \in DOMAIN m}

\* The index entry of id points to an order that is in the level of the entry's
\* side and price.
Located(id) ==
  \E i \in DOMAIN LevelAt(IF orders_[id].side_ = "Buy" THEN bids_ ELSE asks_,
                          orders_[id].price_) :
    OrderEntry((IF orders_[id].side_ = "Buy" THEN bids_ ELSE asks_)[orders_[id].price_][i])
      = orders_[id]

\* C15. Id index and price levels agree: after any call returns, the ids of the
\* index are the ids of the orders in the level lists, every id is at exactly one
\* place of one list, every index entry's order is in the level of its own side and
\* price, and Size() is the number of orders in all level lists.
IndexAgreesWithLevels ==
  outcome = "returned" =>
    /\ DOMAIN orders_ = {o.orderId_ : o \in AllOrders(Book)}
    /\ \A id \in DOMAIN orders_ :
         /\ orders_[id].orderId_ = id
         /\ Located(id)
         /\ Cardinality({pl \in Places(bids_) : bids_[pl[1]][pl[2]].orderId_ = id}) +
              Cardinality({pl \in Places(asks_) : asks_[pl[1]][pl[2]].orderId_ = id}) = 1
    /\ \A pl \in Places(bids_) : bids_[pl[1]][pl[2]].side_ = "Buy"
                                  /\ bids_[pl[1]][pl[2]].price_ = pl[1]
    /\ \A pl \in Places(asks_) : asks_[pl[1]][pl[2]].side_ = "Sell"
                                  /\ asks_[pl[1]][pl[2]].price_ = pl[1]
    /\ Size(Book) = Cardinality(Places(bids_)) + Cardinality(Places(asks_))

\* A matching pass filled out one order and left two in the book.
IndexAgreesWithLevelsWitness ==
  /\ outcome = "returned"
  /\ trades # <<>>
  /\ \E k \in DOMAIN passLog.steps : passLog.steps[k].bidFilled \/ passLog.steps[k].askFilled
  /\ Size(Book) = 2
  /\ Size(before) = 2

\* The levels of a side without the order id, an emptied level left out.
WithoutOrder(m, id) ==
  [p \in {q \in DOMAIN m : \E i \in DOMAIN m[q] : m[q][i].orderId_ # id} |->
     SelectSeq(m[p], LAMBDA o : o.orderId_ # id)]

\* The level list of the order that the index of book b holds under id.
LevelOf(b, id) ==
  LevelAt(IF b.orders_[id].side_ = "Buy" THEN b.bids_ ELSE b.asks_, b.orders_[id].price_)

\* C16. Cancel of a known id removes exactly that order: after CancelOrder(id)
\* with id in the book, the call returns, id is in no level and not in the index,
\* Size() is smaller by exactly 1, the order's level is removed if and only if it
\* held no other order, every other order keeps its side, price, remaining quantity
\* and place among the others, no trade is produced and no matching pass runs.
CancelRemovesExactlyOne ==
  (call.op = "CancelOrder" /\ call.arg.orderId_ \in DOMAIN before.orders_) =>
    /\ outcome = "returned"
    /\ ~InBook(Book, call.arg.orderId_)
    /\ Size(Book) = Size(before) - 1
    /\ LevelOf(before, call.arg.orderId_) # <<>>
    /\ (before.orders_[call.arg.orderId_].price_ \notin
          DOMAIN (IF before.orders_[call.arg.orderId_].side_ = "Buy" THEN bids_ ELSE asks_))
         <=> Len(LevelOf(before, call.arg.orderId_)) = 1
    /\ bids_ = WithoutOrder(before.bids_, call.arg.orderId_)
    /\ asks_ = WithoutOrder(before.asks_, call.arg.orderId_)
    /\ orders_ = [id \in DOMAIN before.orders_ \ {call.arg.orderId_} |-> before.orders_[id]]
    /\ trades = <<>>
    /\ passLog = NoPass

\* The first of two orders of a level was cancelled and the level remains.
CancelRemovesExactlyOneWitness ==
  /\ call.op = "CancelOrder"
  /\ call.arg.orderId_ \in DOMAIN before.orders_
  /\ Len(LevelOf(before, call.arg.orderId_)) = 2
  /\ LevelOf(before, call.arg.orderId_)[1].orderId_ = call.arg.orderId_
  /\ Size(Book) = 1
  /\ outcome = "returned"

\* The only order of a level was cancelled and the level is gone.
CancelRemovesLevelWitness ==
  /\ call.op = "CancelOrder"
  /\ call.arg.orderId_ \in DOMAIN before.orders_
  /\ Len(LevelOf(before, call.arg.orderId_)) = 1
  /\ Size(Book) = 1
  /\ outcome = "returned"

\* No price of the side maps to an empty list.
NoEmpty(m) == \A p \in DOMAIN m : m[p] # <<>>

\* One side across a match step: no level appears, and a level that disappears
\* held the popped head and nothing else.
LevelPoppedOut(pre, post, head, filled) ==
  /\ DOMAIN post \subseteq DOMAIN pre
  /\ \A p \in DOMAIN pre \ DOMAIN post : pre[p] = <<head>> /\ filled
  /\ NoEmpty(post)

\* One side across a call: a level that appears is the one of the admitted order,
\* and a level that disappears has none of its orders left in the book.
LevelLifetime(old, new, side) ==
  /\ \A p \in DOMAIN new \ DOMAIN old :
       /\ call.op \in {"AddOrder", "MatchOrder"}
       /\ call.path = "admitted"
       /\ call.arg.side_ = side
       /\ call.arg.price_ = p
  /\ \A p \in DOMAIN old \ DOMAIN new :
       \A i \in DOMAIN old[p] :
         \/ Targets(old[p][i].orderId_)
         \/ ~InBook(Book, old[p][i].orderId_)
  /\ \A p \in DOMAIN old \cap DOMAIN new :
       \E i \in DOMAIN old[p] : \E j \in DOMAIN new[p] :
         \/ old[p][i].orderId_ = new[p][j].orderId_
         \/ (call.path = "admitted" /\ call.arg.side_ = side /\ call.arg.price_ = p)

\* C17. No empty price level: every price that is a key of the bid side or of the
\* ask side maps to a non-empty list, after every call and after every match step;
\* a level appears only when an order is inserted at a price the side did not hold,
\* and disappears in the step in which its last order is popped by a full fill or
\* erased by a cancellation.
NoEmptyLevel ==
  /\ NoEmpty(bids_) /\ NoEmpty(asks_)
  /\ call # NoCall =>
       /\ LevelLifetime(before.bids_, bids_, "Buy")
       /\ LevelLifetime(before.asks_, asks_, "Sell")
  /\ \A k \in DOMAIN passLog.steps :
       /\ LevelPoppedOut(passLog.steps[k].pre.bids_, PostOf(k).bids_,
                         passLog.steps[k].bid, passLog.steps[k].bidFilled)
       /\ LevelPoppedOut(passLog.steps[k].pre.asks_, PostOf(k).asks_,
                         passLog.steps[k].ask, passLog.steps[k].askFilled)
       /\ (passLog.steps[k].bidFilled /\ Len(passLog.steps[k].pre.bids_[passLog.steps[k].bid.price_]) = 1)
            => passLog.steps[k].bid.price_ \notin DOMAIN PostOf(k).bids_
       /\ (passLog.steps[k].askFilled /\ Len(passLog.steps[k].pre.asks_[passLog.steps[k].ask.price_]) = 1)
            => passLog.steps[k].ask.price_ \notin DOMAIN PostOf(k).asks_

\* A match step popped the last order of a bid level while another bid level and
\* the ask level stayed.
NoEmptyLevelWitness ==
  /\ outcome = "returned"
  /\ \E k \in DOMAIN passLog.steps :
       /\ passLog.steps[k].bidFilled
       /\ ~passLog.steps[k].askFilled
       /\ DOMAIN passLog.steps[k].pre.bids_ \ DOMAIN PostOf(k).bids_ # {}
  /\ DOMAIN bids_ # {}
  /\ DOMAIN asks_ # {}

\* Every order of book b has 0 <= remaining <= initial.
WithinInitial(b) ==
  \A o \in AllOrders(b) :
    0 <= o.remainingQuantity_ /\ o.remainingQuantity_ <= o.initialQuantity_

\* An order of book old that is still in book new has the initial quantity it had
\* and no more remaining than it had.
NeverRefilled(old, new) ==
  \A o \in AllOrders(old) : \A n \in AllOrders(new) :
    o.orderId_ = n.orderId_ =>
      /\ n.initialQuantity_ = o.initialQuantity_
      /\ n.remainingQuantity_ <= o.remainingQuantity_

\* C18. The over-fill condition is unreachable: no call ends in an exception, Fill
\* is invoked on the two heads of a match step with a quantity no greater than what
\* remains of either, every order has 0 <= remaining <= initial, and the remaining
\* quantity of an order never increases from one step or call to the next.
NeverOverFilled ==
  /\ outcome # "exception"
  /\ \A k \in DOMAIN passLog.steps :
       /\ ~FillThrows(passLog.steps[k].bid, passLog.steps[k].quantity)
       /\ ~FillThrows(passLog.steps[k].ask, passLog.steps[k].quantity)
       /\ WithinInitial(passLog.steps[k].pre)
       /\ NeverRefilled(passLog.steps[k].pre, PostOf(k))
  /\ WithinInitial(Book)
  /\ passLog # NoPass => NeverRefilled(passLog.end, Book)
  /\ (call # NoCall /\ call.op # "MatchOrder") => NeverRefilled(before, Book)
  /\ call.op = "MatchOrder" =>
       NeverRefilled([before EXCEPT !.bids_ = WithoutOrder(@, call.arg.orderId_),
                                    !.asks_ = WithoutOrder(@, call.arg.orderId_)], Book)

\* A match step filled part of an order, which rests with less than its initial
\* quantity and more than nothing.
NeverOverFilledWitness ==
  /\ outcome = "returned"
  /\ \E k \in DOMAIN passLog.steps :
       passLog.steps[k].bid.remainingQuantity_ # passLog.steps[k].ask.remainingQuantity_
  /\ \E o \in AllOrders(Book) :
       0 < o.remainingQuantity_ /\ o.remainingQuantity_ < o.initialQuantity_

\* One head across a match step: when the quantity is all that remained of it, it
\* is in no level and not in the index afterwards; otherwise it is still the head of
\* its level, with the quantity taken off, and still in the index.
HeadAfterStep(head, quantity, popped, level, post) ==
  /\ popped <=> head.remainingQuantity_ = quantity
  /\ IF head.remainingQuantity_ = quantity
     THEN ~InBook(post, head.orderId_)
     ELSE /\ level # <<>>
          /\ Head(level) = [head EXCEPT !.remainingQuantity_ = @ - quantity]
          /\ head.orderId_ \in DOMAIN post.orders_

\* C19. Matching makes progress and terminates: every match step fully fills at
\* least one of its two heads, both exactly when their remaining quantities are
\* equal, and removes each filled head from its level and from the id index; so a
\* step leaves fewer orders in the book, and the number of steps of a pass, and of
\* trades a call returns, is at most the number of orders in the book when the pass
\* starts, the newly inserted one included.
MatchingProgress ==
  /\ \A k \in DOMAIN passLog.steps :
       /\ \/ passLog.steps[k].bid.remainingQuantity_ = passLog.steps[k].quantity
          \/ passLog.steps[k].ask.remainingQuantity_ = passLog.steps[k].quantity
       /\ passLog.steps[k].bidFilled \/ passLog.steps[k].askFilled
       /\ (passLog.steps[k].bidFilled /\ passLog.steps[k].askFilled) <=>
            (passLog.steps[k].bid.remainingQuantity_ = passLog.steps[k].ask.remainingQuantity_)
       /\ HeadAfterStep(passLog.steps[k].bid, passLog.steps[k].quantity,
                        passLog.steps[k].bidFilled,
                        LevelAt(PostOf(k).bids_, passLog.steps[k].bid.price_), PostOf(k))
       /\ HeadAfterStep(passLog.steps[k].ask, passLog.steps[k].quantity,
                        passLog.steps[k].askFilled,
                        LevelAt(PostOf(k).asks_, passLog.steps[k].ask.price_), PostOf(k))
       /\ Size(PostOf(k)) < Size(passLog.steps[k].pre)
  /\ passLog.steps # <<>> => Len(passLog.steps) <= Size(passLog.steps[1].pre)
  /\ (outcome = "returned" /\ call.op \in {"AddOrder", "MatchOrder"}) =>
       /\ Len(trades) = Len(passLog.steps)
       /\ Len(trades) <= Size(before) + 1
       /\ call.op = "MatchOrder" => Len(trades) <= Size(before)

\* A pass of two steps: the first filled one head and left the other, the second
\* filled both.
MatchingProgressWitness ==
  /\ outcome = "returned"
  /\ Len(trades) = 2
  /\ Len(passLog.steps) = 2
  /\ passLog.steps[1].bidFilled # passLog.steps[1].askFilled
  /\ passLog.steps[2].bidFilled /\ passLog.steps[2].askFilled
  /\ passLog.steps[1].quantity > 0

\* The Trade of a match step when the ids and the prices are read from the two
\* heads while they are in their levels.
ReadBeforeRemoval(s) ==
  Trade(TradeInfo(s.bid.orderId_, s.bid.price_, s.quantity),
        TradeInfo(s.ask.orderId_, s.ask.price_, s.quantity))

\* C20 as stated. No use of an order or level after its removal: no read of a call
\* goes to an order that was popped and erased from the index or to a level that was
\* erased from its side.  Then no call ends in a faulting read, the Trade of every
\* step carries the ids and prices the two heads had in their levels, and the order
\* that MatchOrder resubmits has the kind the resting order had when it was
\* cancelled.
NoUseAfterRemoval ==
  /\ outcome # "fault"
  /\ outcome = "returned" =>
       /\ Len(trades) = Len(passLog.steps)
       /\ \A i \in DOMAIN trades : trades[i] = ReadBeforeRemoval(passLog.steps[i])
  /\ (call.op = "MatchOrder" /\ call.arg.orderId_ \in DOMAIN before.orders_) =>
       call.type = before.orders_[call.arg.orderId_].orderType_

====
